---- MODULE Spec2Model ----
(***************************************************************************)
(* Model of src/app.py: three timed routes that fan a fixed number of      *)
(* fetch_data calls out over a ThreadPoolExecutor, a ProcessPoolExecutor   *)
(* or a ProcessPoolExecutor whose work items are a lambda that calls       *)
(* threading_fetch, collect the results with list(executor.map(...)) and   *)
(* report end_time - start_time with the results; plus a health route.     *)
(*                                                                         *)
(* One request is followed from dispatch to response.  The executors are   *)
(* modelled by their futures, their queues and their workers:              *)
(*   thread pool :  work_queue --ThreadTake--> worker --Finish--> future   *)
(*   process pool:  work_queue (work ids) --ManagerFeed--> call_queue      *)
(*                  --ProcTake--> worker --Finish--> future                *)
(* with the behaviour of concurrent.futures in CPython 3.11.  The workers  *)
(* of a pool are interchangeable and are kept as a bag of worker states.   *)
(* The wall clock moves only under SpecTimed.                              *)
(***************************************************************************)
EXTENDS Integers, Sequences, FiniteSets, Bags, TLC

\* src/app.py:11
NUM_REQUESTS == 5
\* src/app.py:35  ProcessPoolExecutor(max_workers=2) ... range(2)
HYBRID_PROCS == 2
\* largest value of the clocks
MaxTime == 1

VARIABLES
    route,        \* the route function that is running ("none" before dispatch)
    pc,           \* position of the route function
    dynamic,      \* the executor spawns workers on demand (FALSE: process pool under fork)
    fut,          \* fs: the futures of executor.map, in submission order
    work_queue,   \* submitted items no worker / manager has taken yet (indices into fut)
    call_queue,   \* process pool: pickled call items waiting for a worker process
    workers,      \* _threads / _processes: the bag of the states of the pool's workers
    idle_sem,     \* _idle_semaphore / _idle_worker_semaphore
    shutdown,     \* executor._shutdown / _shutdown_thread
    nxt,          \* index of the future the result iterator is waiting for
    acc,          \* the list that list(...) is building
    results,      \* the local variable results of the strategy function
    raised,       \* the exception propagating out of the strategy function
    response,     \* what the route hands back to the framework
    execs,        \* per future: how many times its call has been started
    overtaken,    \* some future completed before a future submitted earlier
    first_failed, \* index of the future that failed first in time (0: none yet)
    called,       \* the strategy function the route function has called
    now,          \* time.time(): the wall clock
    mono,         \* elapsed real time
    start_time,   \* local variable of the route function
    end_time,     \* local variable of the route function
    ustart,       \* per future: real time at which its call started
    slowest       \* longest real duration of a finished call

vars == <<route, pc, dynamic, fut, work_queue, call_queue, workers, idle_sem,
          shutdown, nxt, acc, results, raised, response, execs, overtaken,
          first_failed, called,
          now, mono, start_time, end_time, ustart, slowest>>

poolVars  == <<dynamic, fut, work_queue, call_queue, workers, idle_sem, execs,
               overtaken, first_failed, ustart, slowest>>
clockVars == <<now, mono>>
stampVars == <<start_time, end_time>>
mainVars  == <<nxt, acc, results, raised>>

Routes == {"threading", "multiprocessing", "hybrid", "health"}
TimedRoutes == {"threading", "multiprocessing", "hybrid"}

Max(a, b) == IF a >= b THEN a ELSE b

\* faulty variant of Strategy: /threading calls the process-pool strategy
StrategySwapped(r) ==
    IF r = "threading" THEN "multiprocessing_fetch"
    ELSE IF r = "multiprocessing" THEN "multiprocessing_fetch"
    ELSE "hybrid_fetch"
\* the strategy function each timed route function calls
Strategy(r) ==
    IF r = "threading" THEN "threading_fetch"
    ELSE IF r = "multiprocessing" THEN "multiprocessing_fetch"
    ELSE "hybrid_fetch"

\* ThreadPoolExecutor in threading_fetch, ProcessPoolExecutor in the other two
PoolKind(r) == IF Strategy(r) = "threading_fetch" THEN "thread" ELSE "process"

\* faulty variant of MaxWorkers: a pool one worker smaller than the fan-out
MaxWorkersFew(r) ==
    IF Strategy(r) = "hybrid_fetch" THEN HYBRID_PROCS - 1 ELSE NUM_REQUESTS - 1
\* max_workers of the executor the strategy creates
MaxWorkers(r) == IF Strategy(r) = "hybrid_fetch" THEN HYBRID_PROCS ELSE NUM_REQUESTS

\* faulty variant of FanOut: one item too few is submitted
FanOutShort(r) ==
    IF Strategy(r) = "hybrid_fetch" THEN HYBRID_PROCS ELSE NUM_REQUESTS - 1
\* number of items executor.map is given: [URL] * NUM_REQUESTS, range(2)
FanOut(r) == IF Strategy(r) = "hybrid_fetch" THEN HYBRID_PROCS ELSE NUM_REQUESTS

\* the callable handed to executor.map
MapFn(r) == IF Strategy(r) = "hybrid_fetch" THEN "lambda" ELSE "fetch_data"

\* pickle sends a function by qualified name: the module-level fetch_data can
\* be sent to a worker process, the lambda local to hybrid_fetch cannot
Picklable(f) == f = "fetch_data"

\* value returned by the call of the i-th submitted item
Tag(i) == i

NoFuture == [state |-> "PENDING", result |-> 0, exc |-> "none"]

NoResponse == [kind |-> "none", execution_time |-> 0, results |-> <<>>]

Init ==
    /\ route = "none"
    /\ pc = "idle"
    /\ dynamic = TRUE
    /\ fut = <<>>
    /\ work_queue = <<>>
    /\ call_queue = <<>>
    /\ workers = EmptyBag
    /\ idle_sem = 0
    /\ shutdown = FALSE
    /\ nxt = 1
    /\ acc = <<>>
    /\ results = <<>>
    /\ raised = "none"
    /\ response = NoResponse
    /\ execs = <<>>
    /\ overtaken = FALSE
    /\ first_failed = 0
    /\ called = "none"
    /\ now = 0
    /\ mono = 0
    /\ start_time = 0
    /\ end_time = 0
    /\ ustart = <<>>
    /\ slowest = 0

(***************************************************************************)
(* The route functions, up to the call of the strategy                     *)
(***************************************************************************)

\* health_check: return {"status": "healthy"}
HealthCheck ==
    /\ pc = "idle"
    /\ route' = "health"
    /\ response' = [kind |-> "healthy", execution_time |-> 0, results |-> <<>>]
    /\ pc' = "done"
    /\ UNCHANGED <<called, poolVars, clockVars, stampVars, mainVars, shutdown>>

\* start_time = time.time()
RouteStart(r) ==
    /\ pc = "idle"
    /\ r \in TimedRoutes
    /\ route' = r
    /\ start_time' = now
    /\ pc' = "started"
    /\ UNCHANGED <<called, poolVars, clockVars, end_time, mainVars, shutdown,
                   response>>

\* results = threading_fetch() / multiprocessing_fetch() / hybrid_fetch(), then
\* with ThreadPoolExecutor(...) / ProcessPoolExecutor(...) as executor:
\* a process pool spawns on demand unless the start method is fork
CreatePool ==
    /\ pc = "started"
    /\ \E d \in BOOLEAN :
         /\ (PoolKind(route) = "thread" => d)
         /\ dynamic' = d
    /\ called' = Strategy(route)
    /\ pc' = "submit"
    /\ UNCHANGED <<route, fut, work_queue, call_queue, workers, idle_sem, execs,
                   overtaken, first_failed, ustart, slowest, clockVars, stampVars, mainVars,
                   shutdown, response>>

\* a worker: what it is doing and how many calls it has run so far
IdleWorker(n) == [st |-> "idle", job |-> 0, ran |-> n]
BusyWorker(i, n) == [st |-> "busy", job |-> i, ran |-> n]
ExitedWorker(n) == [st |-> "exited", job |-> 0, ran |-> n]

One(x) == SetToBag({x})

\* _adjust_thread_count / _adjust_process_count / _launch_processes
Spawned(ws, sem) ==
    IF ~dynamic
    THEN IF BagCardinality(ws) = 0
         THEN [x \in {IdleWorker(0)} |-> MaxWorkers(route)]
         ELSE ws
    ELSE IF sem > 0
         THEN ws
         ELSE IF BagCardinality(ws) < MaxWorkers(route)
              THEN ws (+) One(IdleWorker(0))
              ELSE ws

\* executor.submit, called by executor.map once per item
Submit ==
    /\ pc = "submit"
    /\ Len(fut) < FanOut(route)
    /\ fut' = Append(fut, NoFuture)
    /\ execs' = Append(execs, 0)
    /\ ustart' = Append(ustart, 0)
    /\ work_queue' = Append(work_queue, Len(fut) + 1)
    /\ workers' = Spawned(workers, idle_sem)
    /\ idle_sem' = IF dynamic /\ idle_sem > 0 THEN idle_sem - 1 ELSE idle_sem
    /\ pc' = IF Len(fut) + 1 = FanOut(route) THEN "collect" ELSE "submit"
    /\ UNCHANGED <<route, called, dynamic, call_queue, overtaken, first_failed, slowest, clockVars,
                   stampVars, mainVars, shutdown, response>>

(***************************************************************************)
(* The workers                                                             *)
(***************************************************************************)

SetState(f, i, st) == [f EXCEPT ![i].state = st]

Done(f) == f.state \in {"FINISHED", "FAILED"}

\* a future completes while one submitted before it has not
Overtakes(i) == \E j \in 1..(i - 1) : ~Done(fut[j])

\* the workers blocked in queue.get()
IdleWorkers == {x \in BagToSet(workers) : x.st = "idle"}

\* the worker that is running the call of item i
Runners(i) == {x \in BagToSet(workers) : x.st = "busy" /\ x.job = i}

\* the first future to fail, once future i has completed
FirstFailed(i, ok) == IF first_failed = 0 /\ ~ok THEN i ELSE first_failed

\* _worker of a thread pool: work_item = work_queue.get(); work_item.run()
\* up to the call of fn.  A cancelled item is skipped.
ThreadTake ==
    /\ route \in TimedRoutes
    /\ PoolKind(route) = "thread"
    /\ work_queue # <<>>
    /\ \E x \in IdleWorkers :
        LET i == Head(work_queue) IN
         IF fut[i].state = "CANCELLED"
         THEN /\ idle_sem' = idle_sem + 1
              /\ UNCHANGED <<fut, workers, execs, ustart>>
         ELSE /\ fut' = SetState(fut, i, "RUNNING")
              /\ workers' = (workers (-) One(x)) (+) One(BusyWorker(i, x.ran + 1))
              /\ execs' = [execs EXCEPT ![i] = @ + 1]
              /\ ustart' = [ustart EXCEPT ![i] = mono]
              /\ UNCHANGED idle_sem
    /\ work_queue' = Tail(work_queue)
    /\ UNCHANGED <<route, called, pc, dynamic, call_queue, overtaken, first_failed, slowest,
                   clockVars, stampVars, mainVars, shutdown, response>>

\* _ExecutorManagerThread.add_call_item_to_queue and the queue's feeder
\* thread: a cancelled item is dropped, any other becomes RUNNING and is
\* pickled into the call queue; an item that cannot be pickled fails its
\* future (_on_queue_feeder_error)
ManagerFeed ==
    /\ route \in TimedRoutes
    /\ PoolKind(route) = "process"
    /\ work_queue # <<>>
    /\ LET i == Head(work_queue) IN
         IF fut[i].state = "CANCELLED"
         THEN UNCHANGED <<fut, call_queue, overtaken, first_failed>>
         ELSE IF Picklable(MapFn(route))
              THEN /\ fut' = SetState(fut, i, "RUNNING")
                   /\ call_queue' = Append(call_queue, i)
                   /\ UNCHANGED <<overtaken, first_failed>>
              ELSE /\ fut' = [fut EXCEPT ![i] = [state |-> "FAILED", result |-> 0,
                                                 exc |-> "PicklingError"]]
                   /\ overtaken' = (overtaken \/ Overtakes(i))
                   /\ first_failed' = FirstFailed(i, FALSE)
                   /\ UNCHANGED call_queue
    /\ work_queue' = Tail(work_queue)
    /\ UNCHANGED <<route, called, pc, dynamic, workers, idle_sem, execs, ustart, slowest,
                   clockVars, stampVars, mainVars, shutdown, response>>

\* faulty variant of ProcTake: the call item is left in the call queue
ProcTakePeek ==
    /\ route \in TimedRoutes
    /\ PoolKind(route) = "process"
    /\ call_queue # <<>>
    /\ \E x \in IdleWorkers :
        LET i == Head(call_queue) IN
         /\ workers' = (workers (-) One(x)) (+) One(BusyWorker(i, x.ran + 1))
         /\ execs' = [execs EXCEPT ![i] = @ + 1]
         /\ ustart' = [ustart EXCEPT ![i] = mono]
    /\ UNCHANGED <<route, called, pc, dynamic, fut, work_queue, call_queue,
                   idle_sem, overtaken, first_failed, slowest, clockVars,
                   stampVars, mainVars, shutdown, response>>
\* _process_worker: call_item = call_queue.get(), up to the call of fn
ProcTake ==
    /\ route \in TimedRoutes
    /\ PoolKind(route) = "process"
    /\ call_queue # <<>>
    /\ \E x \in IdleWorkers :
        LET i == Head(call_queue) IN
         /\ workers' = (workers (-) One(x)) (+) One(BusyWorker(i, x.ran + 1))
         /\ execs' = [execs EXCEPT ![i] = @ + 1]
         /\ ustart' = [ustart EXCEPT ![i] = mono]
    /\ call_queue' = Tail(call_queue)
    /\ UNCHANGED <<route, called, pc, dynamic, fut, work_queue, idle_sem, overtaken, first_failed,
                   slowest, clockVars, stampVars, mainVars, shutdown, response>>

\* fetch_data returns response.json(), or httpx.get / json raises
Outcome(i, ok) ==
    IF ok THEN [state |-> "FINISHED", result |-> Tag(i), exc |-> "none"]
          ELSE [state |-> "FAILED", result |-> 0, exc |-> "FetchError"]

\* pickle.dumps of a call's return value for the result queue
Dumps(v) == <<"pickled", v>>

\* faulty variant of Loads: the payload is lost
LoadsLossy(p) == 0
\* pickle.loads of a result item in the parent process
Loads(p) == p[2]

\* the outcome as it reaches the future: the object itself in a thread pool,
\* a pickled copy sent through the result queue in a process pool
Delivered(o) ==
    IF PoolKind(route) = "process" /\ o.state = "FINISHED"
    THEN [o EXCEPT !.result = Loads(Dumps(@))]
    ELSE o

\* faulty variant of Finish: a call that raises is run once more
FinishRetry(i, ok) ==
    /\ Runners(i) # {}
    /\ IF ok \/ execs[i] > 1
       THEN /\ fut' = [fut EXCEPT ![i] = Delivered(Outcome(i, ok))]
            /\ overtaken' = (overtaken \/ Overtakes(i))
            /\ first_failed' = FirstFailed(i, ok)
            /\ slowest' = Max(slowest, mono - ustart[i])
            /\ \E x \in Runners(i) :
                 workers' = (workers (-) One(x)) (+) One(IdleWorker(x.ran))
            /\ idle_sem' = idle_sem + 1
            /\ UNCHANGED execs
       ELSE /\ execs' = [execs EXCEPT ![i] = @ + 1]
            /\ UNCHANGED <<fut, overtaken, first_failed, slowest, workers, idle_sem>>
    /\ UNCHANGED <<route, called, pc, dynamic, work_queue, call_queue, ustart,
                   clockVars, stampVars, mainVars, shutdown, response>>
\* the call of item i returns or raises in its worker: future.set_result /
\* set_exception (process pool: through the result queue), then the worker
\* is idle again
Finish(i, ok) ==
    /\ Runners(i) # {}
    /\ fut' = [fut EXCEPT ![i] = Delivered(Outcome(i, ok))]
    /\ overtaken' = (overtaken \/ Overtakes(i))
    /\ first_failed' = FirstFailed(i, ok)
    /\ slowest' = Max(slowest, mono - ustart[i])
    /\ \E x \in Runners(i) :
         workers' = (workers (-) One(x)) (+) One(IdleWorker(x.ran))
    /\ idle_sem' = idle_sem + 1
    /\ UNCHANGED <<route, called, pc, dynamic, work_queue, call_queue, execs, ustart,
                   clockVars, stampVars, mainVars, shutdown, response>>

\* the pool has nothing left that a worker could still be given
Drained ==
    IF PoolKind(route) = "thread"
    THEN work_queue = <<>>
    ELSE /\ work_queue = <<>>
         /\ call_queue = <<>>
         /\ \A x \in BagToSet(workers) : x.st # "busy"

\* a worker gets the None sentinel after shutdown and returns
WorkerExit ==
    /\ shutdown
    /\ Drained
    /\ \E x \in IdleWorkers :
         workers' = (workers (-) One(x)) (+) One(ExitedWorker(x.ran))
    /\ UNCHANGED <<route, called, pc, dynamic, fut, work_queue, call_queue, idle_sem,
                   execs, overtaken, first_failed, ustart, slowest, clockVars, stampVars,
                   mainVars, shutdown, response>>

(***************************************************************************)
(* list(executor.map(...)) and the exit of the with block                  *)
(***************************************************************************)

\* faulty variant of NextFuture: fs.pop() without fs.reverse()
NextFutureNoReverse == Len(fut) + 1 - nxt
\* result_iterator: fs.reverse(); ... fs.pop(): the futures in submission order
NextFuture == nxt

\* finally: for future in fs: future.cancel(): the futures not yet yielded
\* that have not started are cancelled
Cancelled(f, k) ==
    [i \in DOMAIN f |->
        IF i > k /\ f[i].state = "PENDING"
        THEN [f[i] EXCEPT !.state = "CANCELLED"]
        ELSE f[i]]

\* the iterator yields the result of the next future; after the last one
\* results is bound and the with block is left: shutdown(wait=True)
CollectResult ==
    /\ pc = "collect"
    /\ nxt <= Len(fut)
    /\ fut[NextFuture].state = "FINISHED"
    /\ acc' = Append(acc, fut[NextFuture].result)
    /\ nxt' = nxt + 1
    /\ IF nxt = Len(fut)
       THEN /\ results' = acc'
            /\ shutdown' = TRUE
            /\ pc' = "exit"
       ELSE UNCHANGED <<results, shutdown, pc>>
    /\ UNCHANGED <<route, called, poolVars, clockVars, stampVars, raised, response>>

\* faulty variant of CollectRaise: the failure that happened first is raised
\* as soon as there is one, whatever its index
CollectRaiseFirst ==
    /\ pc = "collect"
    /\ nxt <= Len(fut)
    /\ first_failed # 0
    /\ raised' = fut[first_failed].exc
    /\ nxt' = first_failed
    /\ fut' = Cancelled(fut, 0)
    /\ shutdown' = TRUE
    /\ pc' = "exit"
    /\ UNCHANGED <<route, called, dynamic, work_queue, call_queue, workers,
                   idle_sem, execs, overtaken, first_failed, ustart, slowest,
                   clockVars, stampVars, acc, results, response>>
\* faulty variant of CollectRaise: a failed future is left out of the list
CollectSkip ==
    /\ pc = "collect"
    /\ nxt <= Len(fut)
    /\ fut[NextFuture].state = "FAILED"
    /\ nxt' = nxt + 1
    /\ IF nxt = Len(fut)
       THEN /\ results' = acc
            /\ shutdown' = TRUE
            /\ pc' = "exit"
       ELSE UNCHANGED <<results, shutdown, pc>>
    /\ UNCHANGED <<route, called, poolVars, clockVars, stampVars, acc, raised, response>>
\* faulty variant of CollectRaise: the exception leaves the strategy without
\* waiting for the workers
CollectRaiseNoWait ==
    /\ pc = "collect"
    /\ nxt <= Len(fut)
    /\ fut[NextFuture].state = "FAILED"
    /\ raised' = fut[NextFuture].exc
    /\ fut' = Cancelled(fut, nxt)
    /\ shutdown' = TRUE
    /\ pc' = "fetched"
    /\ UNCHANGED <<route, called, dynamic, work_queue, call_queue, workers, idle_sem,
                   execs, overtaken, first_failed, ustart, slowest, clockVars, stampVars,
                   nxt, acc, results, response>>
\* the next future failed: its exception is raised out of list(...), the
\* remaining futures are cancelled, the with block is left: shutdown(wait=True)
CollectRaise ==
    /\ pc = "collect"
    /\ nxt <= Len(fut)
    /\ fut[NextFuture].state = "FAILED"
    /\ raised' = fut[NextFuture].exc
    /\ fut' = Cancelled(fut, nxt)
    /\ shutdown' = TRUE
    /\ pc' = "exit"
    /\ UNCHANGED <<route, called, dynamic, work_queue, call_queue, workers, idle_sem,
                   execs, overtaken, first_failed, ustart, slowest, clockVars, stampVars,
                   nxt, acc, results, response>>

\* faulty variant of Joined: the join gives up on workers that are in a call
JoinedTimeout == \A x \in BagToSet(workers) : x.st # "idle"
\* faulty variant of Joined: shutdown(wait=False)
JoinedNoWait == TRUE
\* shutdown(wait=True): for t in self._threads: t.join() /
\* self._executor_manager_thread.join()
Joined == \A x \in BagToSet(workers) : x.st = "exited"

\* __exit__ returns; return results, or the exception goes on to the caller
ExitPool ==
    /\ pc = "exit"
    /\ Joined
    /\ pc' = "fetched"
    /\ UNCHANGED <<route, called, poolVars, clockVars, stampVars, mainVars, shutdown,
                   response>>

(***************************************************************************)
(* The route functions, after the strategy                                 *)
(***************************************************************************)

\* faulty variant of RouteEnd: the exception of the strategy is swallowed
RouteEndAnyway ==
    /\ pc = "fetched"
    /\ end_time' = now
    /\ pc' = "stamped"
    /\ UNCHANGED <<route, called, poolVars, clockVars, start_time, mainVars, shutdown,
                   response>>
\* faulty variant of RouteEnd: end_time is taken before the pool is joined
RouteEndEarly ==
    /\ pc \in {"exit", "fetched"}
    /\ raised = "none"
    /\ end_time' = now
    /\ pc' = "stamped"
    /\ UNCHANGED <<route, called, poolVars, clockVars, start_time, mainVars, shutdown,
                   response>>
\* end_time = time.time(), reached when the strategy returned
RouteEnd ==
    /\ pc = "fetched"
    /\ raised = "none"
    /\ end_time' = now
    /\ pc' = "stamped"
    /\ UNCHANGED <<route, called, poolVars, clockVars, start_time, mainVars, shutdown,
                   response>>

\* return {"execution_time": end_time - start_time, "results": results}
RouteReturn ==
    /\ pc = "stamped"
    /\ response' = [kind |-> "envelope", execution_time |-> end_time - start_time,
                    results |-> results]
    /\ pc' = "done"
    /\ UNCHANGED <<route, called, poolVars, clockVars, stampVars, mainVars, shutdown>>

\* the strategy raised: the route function has no handler, the exception
\* leaves it and the framework answers with a server error
RouteRaise ==
    /\ pc = "fetched"
    /\ raised # "none"
    /\ response' = [kind |-> "error", execution_time |-> 0, results |-> <<>>]
    /\ pc' = "done"
    /\ UNCHANGED <<route, called, poolVars, clockVars, stampVars, mainVars, shutdown>>

(***************************************************************************)
(* The clocks                                                              *)
(***************************************************************************)

\* time passes: the wall clock follows
Tick ==
    /\ mono < MaxTime
    /\ now < MaxTime
    /\ pc # "done"
    /\ mono' = mono + 1
    /\ now' = now + 1
    /\ UNCHANGED <<route, called, pc, poolVars, stampVars, mainVars, shutdown, response>>

\* the system clock is set back (time.time() is not monotonic)
ClockSetBack ==
    /\ now > 0
    /\ pc # "done"
    /\ now' = now - 1
    /\ UNCHANGED <<route, called, pc, poolVars, mono, stampVars, mainVars, shutdown,
                   response>>

Next ==
    \/ HealthCheck
    \/ \E r \in TimedRoutes : RouteStart(r)
    \/ CreatePool
    \/ Submit
    \/ ThreadTake
    \/ ManagerFeed
    \/ ProcTake
    \/ \E i \in 1..NUM_REQUESTS, ok \in BOOLEAN : Finish(i, ok)
    \/ WorkerExit
    \/ CollectResult
    \/ CollectRaise
    \/ ExitPool
    \/ RouteEnd
    \/ RouteReturn
    \/ RouteRaise

Spec == Init /\ [][Next]_vars

NextTimed == Next \/ Tick \/ ClockSetBack

SpecTimed == Init /\ [][NextTimed]_vars

\* every step but the return of a call: the steps of the main thread, of the
\* manager thread and of the workers' queue handling, which the interpreter
\* and the operating system schedule fairly; a call may never return
Scheduling ==
    \/ HealthCheck
    \/ \E r \in TimedRoutes : RouteStart(r)
    \/ CreatePool
    \/ Submit
    \/ ThreadTake
    \/ ManagerFeed
    \/ ProcTake
    \/ WorkerExit
    \/ CollectResult
    \/ CollectRaise
    \/ ExitPool
    \/ RouteEnd
    \/ RouteReturn
    \/ RouteRaise

SpecFair == Init /\ [][Next]_vars /\ WF_vars(Scheduling)

(***************************************************************************)
(* Properties                                                              *)
(***************************************************************************)

Flat == route \in {"threading", "multiprocessing"}

\* the strategy function has returned to the route function, or raised
Returned == route \in TimedRoutes /\ pc \in {"fetched", "stamped", "done"}

Succeeded == Returned /\ raised = "none"

FailedUnits == {i \in DOMAIN fut : fut[i].state = "FAILED"}

AllExited == \A x \in BagToSet(workers) : x.st = "exited"

\* C1: a flat strategy that returns a Result Set returns it in submission
\* order: its i-th element is the value of the i-th submitted call, for every
\* i in 1..NUM_REQUESTS, whatever the order in which the calls completed
C1_SubmissionOrder ==
    (Flat /\ Succeeded) =>
        \A i \in 1..NUM_REQUESTS :
            /\ i \in DOMAIN results
            /\ fut[i].state = "FINISHED"
            /\ results[i] = Tag(i)

C1_Witness ==
    /\ route = "multiprocessing"
    /\ Succeeded
    /\ overtaken
    /\ results = [i \in 1..NUM_REQUESTS |-> Tag(i)]

\* C2: a flat strategy that returns successfully returns exactly
\* NUM_REQUESTS results, whatever the order in which the calls completed
C2_Length == (Flat /\ Succeeded) => Len(results) = NUM_REQUESTS

C2_Witness ==
    /\ route = "threading"
    /\ Succeeded
    /\ overtaken
    /\ Len(results) = 5

\* C3: when no fetch_data call fails, hybrid_fetch returns a Result Set of
\* HYBRID_PROCS * NUM_REQUESTS Fetch Results
C3_HybridConcatenation ==
    (/\ route = "hybrid"
     /\ Returned
     /\ \A i \in DOMAIN fut : fut[i].exc # "FetchError")
    => (raised = "none" /\ Len(results) = HYBRID_PROCS * NUM_REQUESTS)

\* C4: in each of the three strategies, when exactly one unit of work has
\* failed the invocation ends in failure: the strategy raises, results is
\* never bound and no envelope is built
C4_OneFailureFailsAll ==
    (Returned /\ Cardinality(FailedUnits) = 1) =>
        /\ raised # "none"
        /\ results = <<>>
        /\ response.kind # "envelope"

C4_Witness ==
    /\ route = "threading"
    /\ pc = "done"
    /\ FailedUnits = {3}
    /\ fut[1].state = "FINISHED"
    /\ fut[5].state = "FINISHED"
    /\ raised = "FetchError"

\* C5: once a flat strategy has returned or raised, every worker of its pool
\* has exited and none is running a call
C5_TornDown ==
    (Flat /\ Returned) =>
        /\ BagCardinality(workers) > 0
        /\ \A x \in BagToSet(workers) : x.st = "exited"

C5_Witness ==
    /\ route = "multiprocessing"
    /\ pc = "fetched"
    /\ raised = "FetchError"
    /\ BagCardinality(workers) = NUM_REQUESTS
    /\ AllExited
    /\ \E i \in DOMAIN fut : i > nxt /\ Done(fut[i])

C7_NoEnvelopeOnFailure ==
    (route \in TimedRoutes /\ raised # "none") =>
        /\ pc # "stamped"
        /\ response.kind \in {"none", "error"}
        /\ pc = "done" => response.kind = "error"

C7_Witness ==
    /\ route = "multiprocessing"
    /\ pc = "done"
    /\ raised = "FetchError"
    /\ response.kind = "error"

\* a step of the pool: a submission, a start, a completion, a cancellation,
\* a worker spawned or released, the shutdown
PoolStep ==
    <<fut, work_queue, call_queue, workers, shutdown>>' #
    <<fut, work_queue, call_queue, workers, shutdown>>

\* start_time has been taken and end_time has not
Measuring == pc \in {"started", "submit", "collect", "exit"}

\* C8: every step of the pool happens after start_time was taken and before
\* end_time is taken; before start_time there is no pool, and once end_time
\* is taken every worker has exited
C8_IntervalCoversExecution ==
    /\ [](pc = "idle" => (fut = <<>> /\ workers = EmptyBag))
    /\ []((route \in TimedRoutes /\ pc \in {"stamped", "done"}) =>
            (AllExited /\ work_queue = <<>> /\ call_queue = <<>>))
    /\ [][PoolStep => (Measuring /\ Measuring')]_vars

C8_Witness ==
    /\ route = "threading"
    /\ pc = "stamped"
    /\ BagCardinality(workers) > 0
    /\ AllExited
    /\ \A i \in 1..NUM_REQUESTS : execs[i] = 1

\* C9: the reported duration is non-negative and at least the duration of
\* the slowest unit of work
C9_DurationBounds ==
    response.kind = "envelope" =>
        /\ response.execution_time >= 0
        /\ response.execution_time >= slowest

\* the call of item i is running in a worker
Busy(i) == Runners(i) # {}

\* C11: a call that never returns keeps the invocation from ever returning,
\* with a Result Set or with a failure; and under fair scheduling, if no call
\* runs forever the request is eventually answered
C11_NoDeadline ==
    /\ \A i \in 1..NUM_REQUESTS : (<>[]Busy(i)) => [](~Returned)
    /\ (\A i \in 1..NUM_REQUESTS : []<>(~Busy(i))) => <>(pc = "done")

C11_Witness ==
    /\ Flat
    /\ pc = "exit"
    /\ raised = "FetchError"
    /\ \E i \in 1..NUM_REQUESTS : Busy(i)
    /\ IdleWorkers = {}

\* C12 as stated: when several units of a flat strategy have failed, the
\* failure that is propagated is that of the unit that failed first in time
C12_EarliestFailure ==
    (Flat /\ Returned /\ raised # "none" /\ Cardinality(FailedUnits) > 1) =>
        nxt = first_failed

\* C12 amended: the failure a flat strategy propagates is that of the failed
\* unit with the lowest submission index, whenever the other units failed:
\* every unit submitted before it has finished with a result
C12_LowestIndexFailure ==
    (Flat /\ raised # "none") =>
        /\ nxt \in FailedUnits
        /\ raised = fut[nxt].exc
        /\ \A j \in FailedUnits : nxt <= j
        /\ \A j \in 1..(nxt - 1) : fut[j].state = "FINISHED"

C12_Witness ==
    /\ Flat
    /\ Returned
    /\ raised # "none"
    /\ Cardinality(FailedUnits) > 1
    /\ first_failed > nxt

RECURSIVE SumSeq(_)
SumSeq(q) == IF q = <<>> THEN 0 ELSE Head(q) + SumSeq(Tail(q))

RECURSIVE SumRan(_)
\* the calls run by the workers of the set S, all copies counted
SumRan(S) ==
    IF S = {} THEN 0
    ELSE LET x == CHOOSE y \in S : TRUE
         IN  x.ran * CopiesIn(x, workers) + SumRan(S \ {x})

\* C13 as stated, for the invocations in which every unit succeeds: the pool
\* has NUM_REQUESTS worker processes and each has run exactly one call
C13_OnePerProcess ==
    (route = "multiprocessing" /\ Succeeded) =>
        /\ BagCardinality(workers) = NUM_REQUESTS
        /\ \A x \in BagToSet(workers) : x.ran = 1

\* C13 amended: every call that is started is run by exactly one worker
\* process and a worker process runs one call at a time; the pool has at
\* most NUM_REQUESTS processes, which together run each unit of a successful
\* invocation once, but one process may run several units and another none
C13_OneProcessPerUnit ==
    route = "multiprocessing" =>
        /\ BagCardinality(workers) <= NUM_REQUESTS
        /\ \A i \in DOMAIN fut :
             /\ execs[i] <= 1
             /\ Cardinality(Runners(i)) <= 1
             /\ \A x \in Runners(i) : CopiesIn(x, workers) = 1
             /\ Busy(i) => (execs[i] = 1 /\ fut[i].state = "RUNNING")
        /\ SumRan(BagToSet(workers)) = SumSeq(execs)
        /\ Succeeded => SumRan(BagToSet(workers)) = NUM_REQUESTS

C13_Witness ==
    /\ route = "multiprocessing"
    /\ Succeeded
    /\ BagCardinality(workers) = NUM_REQUESTS
    /\ \E x \in BagToSet(workers) : x.ran >= 2
    /\ \E x \in BagToSet(workers) : x.ran = 0

RECURSIVE Copies(_)
\* the number of workers of the set S, all copies counted
Copies(S) ==
    IF S = {} THEN 0
    ELSE LET x == CHOOSE y \in S : TRUE
         IN  CopiesIn(x, workers) + Copies(S \ {x})

\* the size the code gives the pool of each strategy
PoolSize == IF route = "hybrid" THEN 2 ELSE 5

\* the work items that sit in a queue of the pool and will be run
Backlog ==
    {i \in DOMAIN fut :
        /\ fut[i].state \in {"PENDING", "RUNNING"}
        /\ \E k \in DOMAIN work_queue \cup DOMAIN call_queue :
             \/ (k \in DOMAIN work_queue /\ work_queue[k] = i)
             \/ (k \in DOMAIN call_queue /\ call_queue[k] = i)}

\* C14: a pool never has more workers than its fixed size, and every work
\* item that waits in a queue of the pool has its own idle worker to take
\* it: none waits for a running call to finish
C14_PoolBound ==
    route \in TimedRoutes =>
        /\ BagCardinality(workers) <= PoolSize
        /\ Len(fut) <= PoolSize
        /\ Cardinality(Backlog) <= Copies(IdleWorkers)

C14_Witness ==
    /\ Flat
    /\ Len(fut) = NUM_REQUESTS
    /\ Cardinality(Backlog) = 2
    /\ Copies(IdleWorkers) = 2
    /\ BagCardinality(workers) = NUM_REQUESTS
    /\ \E i \in DOMAIN fut : Busy(i)

\* the value the call of item i produced in its worker
Produced(i) == Outcome(i, TRUE).result

OwnStrategy(r) ==
    CASE r = "threading" -> "threading_fetch"
      [] r = "multiprocessing" -> "multiprocessing_fetch"
      [] r = "hybrid" -> "hybrid_fetch"

\* C16: a timed route calls its own strategy function and never another one,
\* and the pool at work is the pool of that strategy; /health calls no
\* strategy, creates no pool, starts no call, raises nothing and answers
\* with status healthy
C16_RouteDispatch ==
    /\ route = "none" => called = "none"
    /\ route = "health" =>
         /\ called = "none"
         /\ fut = <<>> /\ execs = <<>>
         /\ work_queue = <<>> /\ call_queue = <<>>
         /\ workers = EmptyBag
         /\ ~shutdown
         /\ raised = "none"
         /\ pc = "done"
         /\ response.kind = "healthy"
    /\ route \in TimedRoutes =>
         /\ called \in {"none", OwnStrategy(route)}
         /\ called = "none" <=> pc = "started"
         /\ (called = "none") => (fut = <<>> /\ workers = EmptyBag)
         /\ (route = "threading") <=> (PoolKind(route) = "thread")
         /\ PoolKind(route) = "thread" => (call_queue = <<>> /\ dynamic)
         /\ Len(fut) <= (IF route = "hybrid" THEN 2 ELSE 5)

C16_Witness ==
    /\ route = "threading"
    /\ pc = "done"
    /\ called = "threading_fetch"
    /\ response.kind = "envelope"
    /\ Len(response.results) = 5
    /\ call_queue = <<>>

\* the failure of a flat strategy has reached the route function
Reported == Flat /\ Returned /\ raised # "none"

\* C17: when the failure of a flat strategy reaches its caller no call of the
\* invocation is running any more and every call that was started has
\* finished; while a call never returns the failure is never reported
C17_FailureAfterRunning ==
    /\ [](Reported =>
            \A i \in DOMAIN fut :
                /\ ~Busy(i)
                /\ fut[i].state # "RUNNING"
                /\ execs[i] > 0 => Done(fut[i]))
    /\ \A i \in 1..NUM_REQUESTS : (<>[]Busy(i)) => [](~Reported)

C17_Witness ==
    /\ route = "threading"
    /\ pc = "exit"
    /\ raised = "FetchError"
    /\ nxt = 1
    /\ Busy(NUM_REQUESTS)
    /\ \A i \in 2..(NUM_REQUESTS - 1) : fut[i].state = "FINISHED"

====
